---- MODULE Spec2Model ----
(***************************************************************************)
(* IcyLister2 (src/icylister2.py): a reader of ICY/SHOUTcast in-band       *)
(* metadata.  The model holds the HTTP response (headers and body bytes),  *)
(* the IcyLister2 object (_stream, _meta_interval) and the position of a   *)
(* caller that constructs the object and then calls get_metadata_once,     *)
(* get_next_metadata and close.  Each blocking stream read is one step.    *)
(* Bytes and decoded characters are numbers (byte values / code points).   *)
(***************************************************************************)
EXTENDS Integers, Sequences, FiniteSets, TLC

VARIABLES
    headers,        \* response headers: sequence of <<name, value>>
    body,           \* response body: sequence of byte values
    conn,           \* the HTTP response object: "unopened" | "open" | "closed"
    stream,         \* self._stream: "None" | "open"
    meta_interval,  \* self._meta_interval: None or Some(n), n an integer
    pos,            \* number of body bytes consumed so far
    pc,             \* caller position
    op,             \* API call in progress: "none" | "once" | "next"
    meta_len,       \* local meta_len of get_metadata_once
    once_result,    \* value returned by the last get_metadata_once
    result,         \* value the last API call returned to the caller
    err,            \* exception raised by the last call, or "none"
    cycle,          \* history: what the current/last get_metadata_once read
    hist,           \* history: counters over the whole run
    poll,           \* _pretty_print: its arguments, locals and sink history
    parser          \* a direct call of parse_icy_metadata: input and output

vars == <<headers, body, conn, stream, meta_interval, pos, pc, op, meta_len,
          once_result, result, err, cycle, hist, poll, parser>>

\* ------------------------------------------------------------------ bounds
\* Number of complete frames the server sends before the body ends.
MaxFrames == 2

\* ------------------------------------------------------- program constants
NUL == 0          \* b"\x00"
EQUALS == 61      \* '='
SEMICOLON == 59   \* ';'
QUOTE == 39       \* "'"
BlockUnit == 16   \* meta_len = length byte * 16

Min(a, b) == IF a < b THEN a ELSE b

\* ----------------------------------------------------------- return values
NoneVal == [kind |-> "None", map |-> <<>>]
DictVal(m) == [kind |-> "dict", map |-> m]
Unset == [kind |-> "unset", map |-> <<>>]

\* The values of the field _meta_interval: None, or an integer n.
None == <<>>
Some(n) == <<n>>
Val(m) == m[1]

\* --------------------------------------------------------- header handling
\* str.lower() on the header names the model uses.
Lower(h) ==
    CASE h \in {"icy-metaint", "Icy-MetaInt", "ICY-METAINT"} -> "icy-metaint"
      [] h \in {"Content-Type", "content-type"} -> "content-type"
      [] h \in {"icy-name", "Icy-Name"} -> "icy-name"
      [] OTHER -> h

Digits == {"0", "1", "2", "3", "4", "5", "6", "7", "8", "9"}

DigitVal(c) ==
    CASE c = "0" -> 0 [] c = "1" -> 1 [] c = "2" -> 2 [] c = "3" -> 3
      [] c = "4" -> 4 [] c = "5" -> 5 [] c = "6" -> 6 [] c = "7" -> 7
      [] c = "8" -> 8 [] c = "9" -> 9

RECURSIVE DigitsVal(_, _)
\* value of a non-empty all-digit sequence, acc is the value read so far
DigitsVal(s, acc) ==
    IF s = <<>> THEN acc
    ELSE DigitsVal(Tail(s), acc * 10 + DigitVal(Head(s)))

RECURSIVE StripSpaces(_)
\* int() ignores surrounding whitespace
StripSpaces(s) ==
    IF s # <<>> /\ Head(s) = " " THEN StripSpaces(Tail(s))
    ELSE IF s # <<>> /\ s[Len(s)] = " " THEN StripSpaces(SubSeq(s, 1, Len(s) - 1))
    ELSE s

\* int(value) for a decimal string given as a sequence of characters:
\* [ok |-> TRUE, val |-> n], or [ok |-> FALSE, val |-> 0] for ValueError.
IntOf(value) ==
    LET t == StripSpaces(value)
        signed == t # <<>> /\ Head(t) \in {"+", "-"}
        d == IF signed THEN Tail(t) ELSE t
    IN  IF d = <<>> \/ \E i \in 1..Len(d) : d[i] \notin Digits
        THEN [ok |-> FALSE, val |-> 0]
        ELSE [ok |-> TRUE,
              val |-> IF signed /\ Head(t) = "-" THEN 0 - DigitsVal(d, 0)
                      ELSE DigitsVal(d, 0)]

\* The header name __init__ looks for, compared after lower().
IsIntervalHeader(name) == Lower(name) = "icy-metaint"

RECURSIVE ScanHeaders(_, _)
\* The for loop of __init__ over getheaders(): cur is the local
\* meta_interval so far ("unbound" until the first assignment).
\* Result: [status |-> "ok" | "unbound" | "ValueError", val |-> n].
ScanHeaders(hs, cur) ==
    IF hs = <<>> THEN cur
    ELSE IF IsIntervalHeader(Head(hs)[1])
         THEN LET v == IntOf(Head(hs)[2])
              IN  IF v.ok THEN ScanHeaders(Tail(hs), [status |-> "ok", val |-> v.val])
                  ELSE [status |-> "ValueError", val |-> 0]
         ELSE ScanHeaders(Tail(hs), cur)

\* A faulty variant of FindMetaInterval: a missing header falls back to a default
\* interval instead of being an error.
FindMetaInterval_Default(hs) == ScanHeaders(hs, [status |-> "ok", val |-> 8192])

FindMetaInterval(hs) == ScanHeaders(hs, [status |-> "unbound", val |-> 0])

\* ------------------------------------------------------ metadata text
RECURSIVE StripNul_Trailing(_)
\* A faulty variant of StripNul: only the padding at the end is removed.
StripNul_Trailing(bytes) ==
    IF bytes # <<>> /\ bytes[Len(bytes)] = NUL
    THEN StripNul_Trailing(SubSeq(bytes, 1, Len(bytes) - 1))
    ELSE bytes

\* bytes.replace(b"\x00", b""): every NUL byte removed, order kept.
StripNul(bytes) == SelectSeq(bytes, LAMBDA b : b # NUL)

\* Python's cp1252 codec for the bytes 0x80..0x9F (index = byte - 127);
\* -1 marks the five bytes the codec leaves undefined.
Cp1252High ==
    << 8364,   -1, 8218,  402, 8222, 8230, 8224, 8225,
        710, 8240,  352, 8249,  338,   -1,  381,   -1,
         -1, 8216, 8217, 8220, 8221, 8226, 8211, 8212,
        732, 8482,  353, 8250,  339,   -1,  382,  376 >>

DecodeByte(b) == IF b < 128 \/ b > 159 THEN b ELSE Cp1252High[b - 127]

\* bytes.decode("Windows-1252"): [ok |-> FALSE] is UnicodeDecodeError.
Decode(bytes) ==
    IF \E i \in 1..Len(bytes) : DecodeByte(bytes[i]) = -1
    THEN [ok |-> FALSE, text |-> <<>>]
    ELSE [ok |-> TRUE, text |-> [i \in 1..Len(bytes) |-> DecodeByte(bytes[i])]]

\* metadata[tag] = value on a dict kept as a sequence of <<tag, value>> in
\* insertion order: an existing key keeps its place and gets the new value.
DictSet(d, k, v) ==
    IF \E i \in 1..Len(d) : d[i][1] = k
    THEN [i \in 1..Len(d) |-> IF d[i][1] = k THEN <<k, v>> ELSE d[i]]
    ELSE Append(d, <<k, v>>)

\* A faulty variant of Unquote: a leading quote and a trailing quote are cut
\* independently of each other.
Unquote_Lenient(value) ==
    LET v == IF value[1] = QUOTE THEN Tail(value) ELSE value
    IN  IF v # <<>> /\ v[Len(v)] = QUOTE THEN SubSeq(v, 1, Len(v) - 1) ELSE v

\* The quote test and cut of parse_icy_metadata on a non-empty value.
Unquote(value) ==
    IF value[1] = QUOTE /\ value[Len(value)] = QUOTE
    THEN SubSeq(value, 2, Len(value) - 1)
    ELSE value

RECURSIVE ParseFrom(_, _, _, _, _, _)
\* The for loop of parse_icy_metadata from character i on.
\* current_value[0] on an empty value raises IndexError.
ParseFrom(text, i, metadata, current_tag, current_value, reading_tag) ==
    IF i > Len(text) THEN [status |-> "ok", metadata |-> metadata]
    ELSE LET char == text[i] IN
         IF reading_tag
         THEN IF char = EQUALS
              THEN ParseFrom(text, i + 1, metadata, current_tag, current_value, FALSE)
              ELSE ParseFrom(text, i + 1, metadata, Append(current_tag, char),
                             current_value, TRUE)
         ELSE IF char = SEMICOLON
              THEN IF current_value = <<>>
                   THEN [status |-> "IndexError", metadata |-> metadata]
                   ELSE ParseFrom(text, i + 1,
                                  DictSet(metadata, current_tag, Unquote(current_value)),
                                  <<>>, <<>>, TRUE)
              ELSE ParseFrom(text, i + 1, metadata, current_tag,
                             Append(current_value, char), FALSE)

parse_icy_metadata(data_string) == ParseFrom(data_string, 1, <<>>, <<>>, <<>>, TRUE)

\* ------------------------------------------------------------ the stream
\* HTTPResponse.read(n) on a body without Content-Length: up to n bytes,
\* fewer (down to none) when the body ends first; a negative n reads on to
\* the end of the body.
ReadCount(n) ==
    IF n < 0 THEN Len(body) - pos ELSE Min(n, Len(body) - pos)

ReadData(n) == SubSeq(body, pos + 1, pos + ReadCount(n))

\* The outcomes of read(n): "data", and for n < -1 also "ValueError"
\* (http.client before 3.12 hands n to BufferedReader.read, which rejects it;
\* later versions read to the end).
ReadOutcomes(n) == IF n < -1 THEN {"data", "ValueError"} ELSE {"data"}

\* A faulty variant of MetaLenOf: the length byte taken as a byte count.
MetaLenOf_NoUnit(data) == IF data = <<>> THEN 0 ELSE data[1]

\* meta_len = int.from_bytes(data, 'big') * 16 for the 0 or 1 bytes read.
MetaLenOf(data) == (IF data = <<>> THEN 0 ELSE data[1]) * BlockUnit

\* A faulty variant of HasBlock: a length of 0 is read and parsed like any other.
HasBlock_Always(len) == len >= 0

\* The test that decides whether get_metadata_once reads a block.
HasBlock(len) == len > 0

\* A faulty variant of LoopAgain: the loop body runs once.
LoopAgain_Never(r) == FALSE

\* The loop test of get_next_metadata: result is None.
LoopAgain(r) == r.kind = "None"

\* ----------------------------------------------------------- the inputs
\* Saturation point of the history counters (above every frame count).
MaxCycles == MaxFrames + 2

\* Audio bytes per frame the server really sends.
FrameIntervals == {2}

Pad(bytes, n) == bytes \o [i \in 1..(n - Len(bytes)) |-> NUL]

Audio(n) == [i \in 1..n |-> 255]

\* Metadata frames the server may send: length byte and padded block.
FrameKinds ==
    { [len |-> 0, block |-> <<>>],
      \* a='x';
      [len |-> 1, block |-> Pad(<<97, 61, 39, 120, 39, 59>>, 16)],
      \* padding only
      [len |-> 1, block |-> Pad(<<>>, 16)],
      \* a=;
      [len |-> 1, block |-> Pad(<<97, 61, 59>>, 16)],
      \* a=<0x81>;
      [len |-> 1, block |-> Pad(<<97, 61, 129, 59>>, 16)],
      \* a=1;<NUL>b=2;
      [len |-> 2, block |-> Pad(<<97, 61, 49, 59, 0, 98, 61, 50, 59>>, 32)] }

FrameBytes(a, f) == Audio(a) \o <<f.len>> \o f.block

RECURSIVE Concat(_, _)
Concat(a, fs) ==
    IF fs = <<>> THEN <<>> ELSE FrameBytes(a, Head(fs)) \o Concat(a, Tail(fs))

FrameSeqs(m) == UNION { [1..n -> FrameKinds] : n \in 0..m }

\* How the body ends: on a frame boundary, inside the audio, right after the
\* audio, right after a length byte of 1, or inside the announced block.
Tails(a) ==
    { <<>>,
      Audio(a - 1),
      Audio(a),
      Audio(a) \o <<1>>,
      Audio(a) \o <<1>> \o <<97, 61, 39, 120, 39, 59>> }

\* The bodies of at most m complete frames and one of the endings.
BodiesUpTo(m) ==
    UNION { { Concat(a, fs) \o t : <<fs, t>> \in FrameSeqs(m) \X Tails(a) } :
            a \in FrameIntervals }

Bodies == BodiesUpTo(MaxFrames)

HeaderLists ==
    { <<>>,
      << <<"Content-Type", <<"m", "p", "3">> >> >>,
      << <<"icy-metaint", <<"2">> >> >>,
      << <<"Content-Type", <<"m", "p", "3">> >>, <<"Icy-MetaInt", <<" ", "2">> >> >>,
      << <<"icy-metaint", <<"2">> >>, <<"ICY-METAINT", <<"3">> >> >>,
      << <<"icy-metaint", <<"0">> >> >>,
      << <<"Icy-MetaInt", <<"-", "2">> >> >>,
      << <<"icy-metaint", <<"x">> >> >>,
      << <<"icy-metaint", <<"2">> >>, <<"icy-metaint", <<>> >> >> }

\* _pretty_print not entered: no arguments, nothing handed to the sink.
PollOff ==
    [on |-> FALSE, filter_fields |-> [given |-> FALSE, fields |-> <<>>],
     with_timestamp |-> FALSE, handed |-> <<>>, sunk |-> <<>>, returns |-> 0,
     interrupted |-> FALSE, int_pos |-> 0, int_sunk |-> 0]

\* No direct parse_icy_metadata call.
ParserOff ==
    [mode |-> "off", from_pairs |-> FALSE, pairs |-> <<>>, text |-> <<>>,
     suffix |-> <<>>, out |-> [status |-> "none", metadata |-> <<>>],
     out_ext |-> [status |-> "none", metadata |-> <<>>]]

NewCycle(p) ==
    [start |-> p, audio_got |-> 0, len_got |-> 0, len_at |-> 0,
     block_want |-> 0, block_got |-> 0, parsed |-> FALSE, text |-> <<>>]

Bump(n) == IF n < MaxCycles THEN n + 1 ELSE n

InitWith(bodies) ==
    /\ headers \in HeaderLists
    /\ body \in bodies
    /\ conn = "unopened"
    /\ stream = "None"
    /\ meta_interval = None
    /\ pos = 0
    /\ pc = "new"
    /\ op = "none"
    /\ meta_len = 0
    /\ once_result = Unset
    /\ result = Unset
    /\ err = "none"
    /\ cycle = NewCycle(0)
    /\ hist = [cycles |-> 0, raised |-> FALSE, reads |-> FALSE,
               call_start |-> 0, closes |-> 0]
    /\ poll = PollOff
    /\ parser = ParserOff

Init == InitWith(Bodies)

\* ---------------------------------------------------------- the actions
\* IcyLister2.__init__: urlopen, then the scan of the response headers.
\* On an exception no object results: the fields stay at the class defaults
\* while the response that urlopen returned stays open.
Construct ==
    /\ pc = "new"
    /\ conn' = "open"
    /\ LET r == FindMetaInterval(headers) IN
         IF r.status = "ok"
         THEN /\ stream' = "open"
              /\ meta_interval' = Some(r.val)
              /\ pc' = "idle"
              /\ err' = "none"
         ELSE /\ stream' = "None"
              /\ meta_interval' = None
              /\ pc' = "failed"
              /\ err' = IF r.status = "unbound" THEN "RuntimeError" ELSE "ValueError"
    /\ UNCHANGED <<headers, body, pos, op, meta_len, once_result, result, cycle, hist>>
    /\ UNCHANGED <<poll, parser>>

\* The caller enters get_metadata_once (the locals and the history of the
\* previous call are dropped).
CallOnce ==
    /\ pc \in {"idle", "raised"}
    /\ op' = "once"
    /\ pc' = "skip"
    /\ err' = "none"
    /\ meta_len' = 0
    /\ once_result' = Unset
    /\ result' = Unset
    /\ cycle' = NewCycle(pos)
    /\ hist' = [hist EXCEPT !.call_start = pos]
    /\ UNCHANGED <<headers, body, conn, stream, meta_interval, pos>>
    /\ UNCHANGED <<poll, parser>>

\* The caller enters get_next_metadata: result = None, first loop round.
CallNext ==
    /\ pc \in {"idle", "raised"}
    /\ op' = "next"
    /\ pc' = "skip"
    /\ err' = "none"
    /\ meta_len' = 0
    /\ once_result' = NoneVal
    /\ result' = Unset
    /\ cycle' = NewCycle(pos)
    /\ hist' = [hist EXCEPT !.call_start = pos]
    /\ UNCHANGED <<headers, body, conn, stream, meta_interval, pos>>
    /\ UNCHANGED <<poll, parser>>

\* get_metadata_once, line 90: self._stream.read(self._meta_interval).
ReadAudio ==
    /\ pc = "skip"
    /\ IF stream = "None"
       THEN /\ pc' = "raised"
            /\ err' = "AttributeError"
            /\ hist' = [hist EXCEPT !.raised = TRUE]
            /\ UNCHANGED <<pos, cycle>>
       ELSE \E outcome \in ReadOutcomes(Val(meta_interval)) :
              IF outcome = "ValueError"
              THEN /\ pc' = "raised"
                   /\ err' = "ValueError"
                   /\ hist' = [hist EXCEPT !.raised = TRUE, !.reads = TRUE]
                   /\ UNCHANGED <<pos, cycle>>
              ELSE /\ pos' = pos + ReadCount(Val(meta_interval))
                   /\ cycle' = [cycle EXCEPT !.audio_got = ReadCount(Val(meta_interval))]
                   /\ hist' = [hist EXCEPT !.reads = TRUE]
                   /\ pc' = "len"
                   /\ err' = "none"
    /\ UNCHANGED <<headers, body, conn, stream, meta_interval, op, meta_len,
                   once_result, result>>
    /\ UNCHANGED <<poll, parser>>

\* get_metadata_once, lines 91-92: read(1), meta_len, and the return of
\* None when meta_len is 0.
ReadLength ==
    /\ pc = "len"
    /\ LET data == ReadData(1)
           len == MetaLenOf(data)
       IN  /\ pos' = pos + Len(data)
           /\ meta_len' = len
           /\ cycle' = [cycle EXCEPT !.len_got = Len(data),
                                     !.len_at = IF data = <<>> THEN 0 ELSE pos + 1,
                                     !.block_want = len]
           /\ IF HasBlock(len)
              THEN /\ pc' = "block"
                   /\ UNCHANGED <<once_result, hist>>
              ELSE /\ pc' = "ret"
                   /\ once_result' = NoneVal
                   /\ hist' = [hist EXCEPT !.cycles = Bump(@)]
    /\ UNCHANGED <<headers, body, conn, stream, meta_interval, op, result, err>>
    /\ UNCHANGED <<poll, parser>>

\* get_metadata_once, lines 93-95: read(meta_len), strip NUL, decode, parse.
ReadBlock ==
    /\ pc = "block"
    /\ LET data == ReadData(meta_len)
           dec == Decode(StripNul(data))
           parsed == parse_icy_metadata(dec.text)
       IN  /\ pos' = pos + Len(data)
           /\ IF ~dec.ok
              THEN /\ pc' = "raised"
                   /\ err' = "UnicodeDecodeError"
                   /\ cycle' = [cycle EXCEPT !.block_got = Len(data)]
                   /\ hist' = [hist EXCEPT !.raised = TRUE]
                   /\ UNCHANGED once_result
              ELSE IF parsed.status # "ok"
              THEN /\ pc' = "raised"
                   /\ err' = parsed.status
                   /\ cycle' = [cycle EXCEPT !.block_got = Len(data), !.parsed = TRUE,
                                             !.text = dec.text]
                   /\ hist' = [hist EXCEPT !.raised = TRUE]
                   /\ UNCHANGED once_result
              ELSE /\ pc' = "ret"
                   /\ err' = "none"
                   /\ cycle' = [cycle EXCEPT !.block_got = Len(data), !.parsed = TRUE,
                                             !.text = dec.text]
                   /\ hist' = [hist EXCEPT !.cycles = Bump(@)]
                   /\ once_result' = DictVal(parsed.metadata)
    /\ UNCHANGED <<headers, body, conn, stream, meta_interval, op, meta_len, result>>
    /\ UNCHANGED <<poll, parser>>

\* get_metadata_once returns to a caller that called it directly.
ReturnOnce ==
    /\ pc = "ret"
    /\ op = "once"
    /\ result' = once_result
    /\ pc' = "idle"
    /\ UNCHANGED <<headers, body, conn, stream, meta_interval, pos, op, meta_len,
                   once_result, err, cycle, hist>>
    /\ UNCHANGED <<poll, parser>>

\* get_next_metadata, lines 104-106: the loop test on the value that
\* get_metadata_once returned, then the next round or the return.
LoopNext ==
    /\ pc = "ret"
    /\ op = "next"
    /\ IF LoopAgain(once_result)
       THEN /\ pc' = "skip"
            /\ cycle' = NewCycle(pos)
            /\ UNCHANGED result
       ELSE /\ pc' = "idle"
            /\ result' = once_result
            /\ UNCHANGED cycle
    /\ UNCHANGED <<headers, body, conn, stream, meta_interval, pos, op, meta_len,
                   once_result, err, hist>>
    /\ UNCHANGED <<poll, parser>>

\* A faulty variant of Close: the response is closed but the fields keep
\* their values.
Close_KeepsFields ==
    /\ pc \in {"idle", "raised"}
    /\ stream = "open"
    /\ op' = "close"
    /\ conn' = "closed"
    /\ pc' = "idle"
    /\ err' = "none"
    /\ hist' = [hist EXCEPT !.closes = Bump(@)]
    /\ meta_len' = 0
    /\ once_result' = Unset
    /\ result' = Unset
    /\ cycle' = NewCycle(pos)
    /\ UNCHANGED <<headers, body, pos, stream, meta_interval>>
    /\ UNCHANGED <<poll, parser>>

\* IcyLister2.close: self._stream.close(), both fields set to None.
Close ==
    /\ pc \in {"idle", "raised"}
    /\ op' = "close"
    /\ IF stream = "None"
       THEN /\ pc' = "raised"
            /\ err' = "AttributeError"
            /\ hist' = [hist EXCEPT !.raised = TRUE]
            /\ UNCHANGED <<conn, stream, meta_interval>>
       ELSE /\ conn' = "closed"
            /\ stream' = "None"
            /\ meta_interval' = None
            /\ pc' = "idle"
            /\ err' = "none"
            /\ hist' = [hist EXCEPT !.closes = Bump(@)]
    /\ meta_len' = 0
    /\ once_result' = Unset
    /\ result' = Unset
    /\ cycle' = NewCycle(pos)
    /\ UNCHANGED <<headers, body, pos>>
    /\ UNCHANGED <<poll, parser>>

Next ==
    \/ Construct
    \/ CallOnce
    \/ CallNext
    \/ ReadAudio
    \/ ReadLength
    \/ ReadBlock
    \/ ReturnOnce
    \/ LoopNext
    \/ Close

Spec == Init /\ [][Next]_vars

\* The steps inside a call; pc enables at most one of them.
CallStep == ReadAudio \/ ReadLength \/ ReadBlock \/ ReturnOnce \/ LoopNext

\* A call that has started runs on (every read on the finite body returns),
\* while the caller is free never to call again.
FairInit == InitWith(BodiesUpTo(MaxFrames - 1))

FairSpec == FairInit /\ [][Next]_vars /\ WF_vars(CallStep)

\* ------------------------------------------------- framing of the body
\* The frames the body holds when it is cut every mi audio bytes: frame k
\* ends at FrameEnd(k, mi), its length byte is the byte before its block.
RECURSIVE NumFrames(_, _)
\* number of complete frames from offset p on
NumFrames(p, mi) ==
    IF p + mi + 1 > Len(body) THEN 0
    ELSE LET e == p + mi + 1 + BlockUnit * body[p + mi + 1]
         IN  IF e > Len(body) THEN 0 ELSE 1 + NumFrames(e, mi)

RECURSIVE FrameEnd(_, _)
FrameEnd(k, mi) ==
    IF k = 0 THEN 0
    ELSE LET p == FrameEnd(k - 1, mi)
         IN  p + mi + 1 + BlockUnit * body[p + mi + 1]

\* The interval of the open reader.
Interval == Val(meta_interval)

\* The reader is open on a body that is a whole number of well-formed frames.
WellFormedStream ==
    /\ stream = "open"
    /\ Interval >= 0
    /\ FrameEnd(NumFrames(0, Interval), Interval) = Len(body)

RECURSIVE FirstNonZero(_, _)
\* start offset of the first frame at or after the frame boundary p whose
\* length byte is not 0; -1 when the body has none
FirstNonZero(p, mi) ==
    IF p + mi + 1 > Len(body) THEN -1
    ELSE IF body[p + mi + 1] # 0 THEN p
    ELSE FirstNonZero(p + mi + 1, mi)

IntervalHeaderNames == {"icy-metaint", "Icy-MetaInt", "ICY-METAINT"}

HasIntervalHeader(hs) == \E i \in 1..Len(hs) : hs[i][1] \in IntervalHeaderNames

\* ------------------------------------------------------------ the claims

\* C1: on a body of well-formed frames, after k successful get_metadata_once
\* calls (none having failed) the position is the end of frame k, and the
\* byte read as the length unit is the length byte of the frame the cycle
\* started on.
C1_FramingAlignment ==
    (WellFormedStream /\ ~hist.raised) =>
        /\ (pc \in {"idle", "skip", "ret"}
              /\ hist.cycles <= NumFrames(0, Interval))
             => pos = FrameEnd(hist.cycles, Interval)
        /\ cycle.len_got = 1 =>
             \E k \in 0..(NumFrames(0, Interval) - 1) :
                /\ cycle.start = FrameEnd(k, Interval)
                /\ cycle.len_at = cycle.start + Interval + 1

C1_Witness ==
    /\ WellFormedStream
    /\ ~hist.raised
    /\ pc = "idle"
    /\ hist.cycles = 2
    /\ NumFrames(0, Interval) = 2
    /\ pos = Len(body)
    /\ pos > 2 * (Interval + 1) + BlockUnit

\* C2: when the length byte of a cycle is 0, get_metadata_once returns None
\* without an error, the position is just past the length byte, no block
\* byte was read and the parser was not called.
C2_ZeroLengthCycle ==
    (stream = "open" /\ cycle.len_got = 1 /\ body[cycle.len_at] = 0) =>
        /\ pc \in {"ret", "idle"}
        /\ once_result = NoneVal
        /\ err = "none"
        /\ pos = cycle.len_at
        /\ cycle.block_got = 0
        /\ ~cycle.parsed
        /\ (pc = "idle" /\ op = "once") => result = NoneVal

C2_Witness ==
    /\ stream = "open"
    /\ pc = "idle"
    /\ op = "once"
    /\ cycle.len_got = 1
    /\ body[cycle.len_at] = 0
    /\ cycle.audio_got = Interval
    /\ result = NoneVal
    /\ pos < Len(body)

\* C3: on a body of well-formed frames, when get_next_metadata returns it
\* returns the dict parsed from the block of the first frame, from the frame
\* the call started on, whose length byte is not 0, and the position is the
\* end of that frame.
C3_NextReturnsFirstBlock ==
    (WellFormedStream /\ pc = "idle" /\ op = "next") =>
        LET f == FirstNonZero(hist.call_start, Interval)
            b == f + Interval + 1
            e == b + BlockUnit * body[b]
        IN  /\ f >= 0
            /\ pos = e
            /\ result.kind = "dict"
            /\ result.map =
                 parse_icy_metadata(Decode(StripNul(SubSeq(body, b + 1, e))).text).metadata

C3_Witness ==
    /\ WellFormedStream
    /\ pc = "idle"
    /\ op = "next"
    /\ FirstNonZero(hist.call_start, Interval) > hist.call_start
    /\ result.kind = "dict"
    /\ result.map # <<>>

\* C3, second case: the returning call leaves the following frame unread.
C3_WitnessFollowing ==
    /\ WellFormedStream
    /\ pc = "idle"
    /\ op = "next"
    /\ result.kind = "dict"
    /\ pos < Len(body)

\* C4: the dict that get_next_metadata returns is never empty (stated on
\* bodies of well-formed frames, where no truncation is involved).
C4_NextNeverEmpty ==
    (WellFormedStream /\ pc = "idle" /\ op = "next") => (result.kind = "dict" /\ result.map # <<>>)

\* C5: when the body ends inside the audio skip of a cycle, the cycle does
\* not return a value (it fails instead).
C5_TruncatedAudioFails ==
    (pc = "ret" /\ Interval > 0) => cycle.audio_got = Interval

\* C6: when the body ends right after the audio bytes of a cycle, so that no
\* length byte can be read, the cycle does not return a value.
C6_MissingLengthByteFails ==
    (pc = "ret" /\ Interval > 0 /\ cycle.audio_got = Interval)
        => cycle.len_got = 1

\* C7: when the length byte announces a block and the body holds fewer bytes
\* than announced, the cycle does not return a value; every returned dict
\* comes from a whole block.
C7_PartialBlockFails ==
    (pc = "ret" /\ cycle.block_want > 0) => cycle.block_got = cycle.block_want

\* C8: a get_next_metadata call running on the exhausted body eventually
\* ends (by raising the truncation error).
C8_NextTerminates ==
    (op = "next" /\ pc = "skip" /\ stream = "open" /\ pos = Len(body))
        ~> (pc \in {"raised", "idle"})

\* C9: when no response header names the metadata interval, in any letter
\* case, construction fails with the "no Icy-Metaint header" error, no body
\* byte has been read and no reader results.
C9_NoHeaderFails ==
    (pc # "new" /\ ~HasIntervalHeader(headers)) =>
        /\ pc = "failed"
        /\ err = "RuntimeError"
        /\ stream = "None"
        /\ pos = 0
        /\ ~hist.reads

C9_Witness ==
    /\ pc = "failed"
    /\ err = "RuntimeError"
    /\ headers # <<>>
    /\ ~HasIntervalHeader(headers)
    /\ pos = 0

\* C10: whenever a reader is open its interval is a positive integer.
C10_PositiveInterval ==
    stream = "open" => Interval > 0

\* C11: once close() has been called, every get_metadata_once and
\* get_next_metadata call fails (AttributeError on the None stream) and
\* reads no byte: a call in progress is at its first read or has raised,
\* and the position is the one the call started at.
C11_ClosedReaderFails ==
    (conn = "closed" /\ op \in {"once", "next"}) =>
        /\ pc \in {"skip", "raised"}
        /\ pc = "raised" => err = "AttributeError"
        /\ pos = hist.call_start
        /\ cycle.audio_got = 0 /\ cycle.len_got = 0 /\ cycle.block_got = 0
        /\ result = Unset

C11_Witness ==
    /\ conn = "closed"
    /\ op = "next"
    /\ pc = "raised"
    /\ err = "AttributeError"
    /\ hist.raised
    /\ pos > 0
    /\ pos < Len(body)

\* ------------------------------------------- parse_icy_metadata alone
\* A direct call of the static method on a text: the inputs are every text
\* of at most MaxText characters over a, =, ; and ', the texts of the
\* documentation, and the texts written as terminated pairs tag=value;.
\* Each text comes with a suffix that holds no ';'.
MaxText == 4
MaxPairs == 2
MaxSuffix == 2

ParseAlphabet == {97, EQUALS, SEMICOLON, QUOTE}

RawTexts == UNION { [1..k -> ParseAlphabet] : k \in 0..MaxText }

\* x='a;b';
QuotedSemicolonText == <<120, 61, 39, 97, 59, 98, 39, 59>>

\* StreamTitle='Artist - Song';
StreamTitleText ==
    <<83, 116, 114, 101, 97, 109, 84, 105, 116, 108, 101, 61, 39, 65, 114, 116, 105, 115, 116, 32, 45, 32, 83, 111, 110, 103, 39, 59>>

\* a=1;b=2;
TwoPairsText == <<97, 61, 49, 59, 98, 61, 50, 59>>

SampleTexts == {QuotedSemicolonText, StreamTitleText, TwoPairsText}

\* tags a, b; values: empty, ', 1, 'x', 'x, ''
PairTags == {<<97>>, <<98>>}

PairValues ==
    {<<>>, <<QUOTE>>, <<49>>, <<QUOTE, 120, QUOTE>>, <<QUOTE, 120>>, <<QUOTE, QUOTE>>}

PairLists == UNION { [1..k -> PairTags \X PairValues] : k \in 1..MaxPairs }

RECURSIVE PairsText(_)
\* the text tag=value; for each pair in turn
PairsText(ps) ==
    IF ps = <<>> THEN <<>>
    ELSE Head(ps)[1] \o <<EQUALS>> \o Head(ps)[2] \o <<SEMICOLON>> \o PairsText(Tail(ps))

Suffixes == UNION { [1..k -> ParseAlphabet \ {SEMICOLON}] : k \in 0..MaxSuffix }

ParserReady(from_pairs, pairs, text, suffix) ==
    [ParserOff EXCEPT !.mode = "ready", !.from_pairs = from_pairs, !.pairs = pairs,
                      !.text = text, !.suffix = suffix]

ParseInit ==
    /\ headers = <<>>
    /\ body = <<>>
    /\ conn = "unopened"
    /\ stream = "None"
    /\ meta_interval = None
    /\ pos = 0
    /\ pc = "parse"
    /\ op = "none"
    /\ meta_len = 0
    /\ once_result = Unset
    /\ result = Unset
    /\ err = "none"
    /\ cycle = NewCycle(0)
    /\ hist = [cycles |-> 0, raised |-> FALSE, reads |-> FALSE,
               call_start |-> 0, closes |-> 0]
    /\ poll = PollOff
    /\ \/ \E t \in RawTexts \cup SampleTexts : \E x \in Suffixes :
             parser = ParserReady(FALSE, <<>>, t, x)
       \/ \E ps \in PairLists : \E x \in Suffixes :
             parser = ParserReady(TRUE, ps, PairsText(ps), x)

\* IcyLister2.parse_icy_metadata(text), and the same call on the text
\* followed by the suffix.
ParseCall ==
    /\ parser.mode = "ready"
    /\ parser' = [parser EXCEPT !.mode = "done",
                                !.out = parse_icy_metadata(parser.text),
                                !.out_ext = parse_icy_metadata(parser.text \o parser.suffix)]
    /\ UNCHANGED <<headers, body, conn, stream, meta_interval, pos, pc, op, meta_len,
                   once_result, result, err, cycle, hist, poll>>

ParseNext == ParseCall

ParseSpec == ParseInit /\ [][ParseNext]_vars

\* The quote rule as documented: a value of at least 2 characters that
\* begins and ends with a quote loses both; any other value is kept.
UnquoteRule(v) ==
    IF Len(v) >= 2 /\ v[1] = QUOTE /\ v[Len(v)] = QUOTE
    THEN SubSeq(v, 2, Len(v) - 1)
    ELSE v

\* the value of the last pair of ps whose tag is t
RECURSIVE LastValue(_, _)
LastValue(ps, t) ==
    IF ps[Len(ps)][1] = t THEN ps[Len(ps)][2]
    ELSE LastValue(SubSeq(ps, 1, Len(ps) - 1), t)

\* C12: for a text of one pair tag=value; parse succeeds and stores the
\* value without its quotes exactly when it has at least 2 characters and
\* begins and ends with a quote, and verbatim otherwise (the empty value as
\* the empty string, the value ' as ').
C12_QuoteStripping ==
    (parser.mode = "done" /\ parser.from_pairs /\ Len(parser.pairs) = 1) =>
        /\ parser.out.status = "ok"
        /\ parser.out.metadata =
             << <<parser.pairs[1][1], UnquoteRule(parser.pairs[1][2])>> >>

\* C13: for every text s and every suffix t without ';', parse(s t)
\* succeeds and equals parse(s); parse of the empty text is the empty dict.
C13_TrailingSegmentDropped ==
    parser.mode = "done" =>
        /\ parser.out.status = "ok"
        /\ parser.out_ext.status = "ok"
        /\ parser.out_ext.metadata = parser.out.metadata
        /\ parser.text = <<>> => parser.out.metadata = <<>>

\* C14: no stored value holds a ';', and parse("x='a;b';") is exactly
\* {"x": "'a"}: the value ends at the first ';' and the rest, b';, stays in
\* a tag that is never stored.
C14_FirstSemicolonEnds ==
    parser.mode = "done" =>
        /\ parser.out.status = "ok" =>
             \A i \in 1..Len(parser.out.metadata) :
                \A j \in 1..Len(parser.out.metadata[i][2]) :
                   parser.out.metadata[i][2][j] # SEMICOLON
        /\ parser.text = QuotedSemicolonText =>
             /\ parser.out.status = "ok"
             /\ parser.out.metadata = << <<(<<120>>), <<QUOTE, 97>> >> >>

C14_Witness ==
    /\ parser.mode = "done"
    /\ parser.text = QuotedSemicolonText
    /\ parser.out.status = "ok"
    /\ Len(parser.out.metadata) = 1
    /\ parser.out.metadata[1][2] = <<QUOTE, 97>>

\* C15: for a text of terminated pairs tag=value; parse succeeds, its
\* keys are exactly the tags that occur, and each tag maps to the unquoted
\* value of its last occurrence.
C15_PairsLastWins ==
    (parser.mode = "done" /\ parser.from_pairs) =>
        /\ parser.out.status = "ok"
        /\ { parser.out.metadata[i][1] : i \in 1..Len(parser.out.metadata) }
             = { parser.pairs[i][1] : i \in 1..Len(parser.pairs) }
        /\ \A i \in 1..Len(parser.out.metadata) :
              parser.out.metadata[i][2]
                = UnquoteRule(LastValue(parser.pairs, parser.out.metadata[i][1]))

\* ------------------------------------------------ blocks and decoding
\* The block bytes the current cycle read.
CycleBlock == SubSeq(body, cycle.len_at + 1, cycle.len_at + cycle.block_got)

RECURSIVE NonNul(_)
\* the bytes other than NUL, in their order
NonNul(bytes) ==
    IF bytes = <<>> THEN <<>>
    ELSE IF Head(bytes) = NUL THEN NonNul(Tail(bytes))
    ELSE <<Head(bytes)>> \o NonNul(Tail(bytes))

\* a='x'; and 10 NUL bytes
PaddedTitleBlock == Pad(<<97, 61, 39, 120, 39, 59>>, 16)

\* C16: decoding is total: a cycle that has read a block never fails with a
\* decoding error, whatever bytes the block holds.
C16_DecodingTotal ==
    (op \in {"once", "next"} /\ cycle.block_want > 0 /\ pc = "raised")
        => err # "UnicodeDecodeError"

\* C17: the text given to the parser holds no NUL and is the decoding of the
\* non-NUL bytes of the block in their order; the block a='x'; padded with
\* 10 NUL bytes yields {"a": "x"}.
C17_NulStripped ==
    cycle.parsed =>
        /\ \A i \in 1..Len(cycle.text) : cycle.text[i] # NUL
        /\ cycle.text = Decode(NonNul(CycleBlock)).text
        /\ CycleBlock = PaddedTitleBlock =>
             /\ err = "none"
             /\ once_result = DictVal(<< <<(<<97>>), <<120>> >> >>)

C17_Witness ==
    /\ cycle.parsed
    /\ pc = "idle"
    /\ op = "once"
    /\ CycleBlock = PaddedTitleBlock
    /\ result = DictVal(<< <<(<<97>>), <<120>> >> >>)

\* C17, second case: a NUL between two pairs is removed as well.
C17_WitnessInterior ==
    /\ cycle.parsed
    /\ pc = "idle"
    /\ \E i \in 1..Len(CycleBlock) : \E j \in (i + 1)..Len(CycleBlock) :
          CycleBlock[i] = NUL /\ CycleBlock[j] # NUL
    /\ Len(result.map) = 2

\* ------------------------------------------------- the polling loop
\* main(): the object is constructed, _pretty_print runs its loop on it
\* until KeyboardInterrupt, then main closes the object.  _pretty_print is
\* entered with any of its argument combinations.

\* "_timestamp"
TimestampKey == <<95, 116, 105, 109, 101, 115, 116, 97, 109, 112>>

\* str(datetime.now()): one reading of the clock stands for all.
ClockStrings == { <<116, 48>> }

\* filter_fields: None, [], ["a"]
FilterChoices ==
    { [given |-> FALSE, fields |-> <<>>],
      [given |-> TRUE, fields |-> <<>>],
      [given |-> TRUE, fields |-> << <<97>> >>] }

\* Frames served to the polling loop: no metadata, a='x';, ab=1;, padding only.
PollFrameKinds ==
    { [len |-> 0, block |-> <<>>],
      [len |-> 1, block |-> Pad(<<97, 61, 39, 120, 39, 59>>, 16)],
      [len |-> 1, block |-> Pad(<<97, 98, 61, 49, 59>>, 16)],
      [len |-> 1, block |-> Pad(<<>>, 16)] }

PollBodies ==
    UNION { { Concat(a, fs) : fs \in UNION { [1..n -> PollFrameKinds] : n \in 0..MaxFrames } } :
            a \in FrameIntervals }

PollInit == InitWith(PollBodies)

\* x in the list fields
InList(x, fields) == \E i \in 1..Len(fields) : fields[i] = x

RECURSIVE FilterLoop(_, _, _, _)
\* Lines 135-137: "for key, value in metadata" iterates the keys of the dict
\* and unpacks each key, a string, into key and value: a key that is not 2
\* characters long raises ValueError, a 2-character key gives its two
\* characters.
FilterLoop(metadata, i, fields, res) ==
    IF i > Len(metadata) THEN [status |-> "ok", result |-> res]
    ELSE LET k == metadata[i][1] IN
         IF Len(k) # 2 THEN [status |-> "ValueError", result |-> res]
         ELSE LET key == <<k[1]>>
                  value == <<k[2]>>
              IN  FilterLoop(metadata, i + 1, fields,
                             IF InList(key, fields) THEN DictSet(res, key, value) ELSE res)

\* Lines 131-137: the result before the timestamp is added.
FilterResult(metadata, filter_fields) ==
    IF ~filter_fields.given \/ Len(filter_fields.fields) = 0
    THEN [status |-> "ok", result |-> metadata]
    ELSE FilterLoop(metadata, 1, filter_fields.fields, <<>>)

\* main line 173 and _pretty_print lines 127-130: the loop is entered and
\* calls get_next_metadata for the first time.
PollStart ==
    /\ pc = "idle"
    /\ op = "none"
    /\ ~poll.on
    /\ \E f \in FilterChoices : \E ts \in BOOLEAN :
          poll' = [PollOff EXCEPT !.on = TRUE, !.filter_fields = f, !.with_timestamp = ts]
    /\ op' = "next"
    /\ pc' = "skip"
    /\ err' = "none"
    /\ meta_len' = 0
    /\ once_result' = NoneVal
    /\ result' = Unset
    /\ cycle' = NewCycle(pos)
    /\ hist' = [hist EXCEPT !.call_start = pos]
    /\ UNCHANGED <<headers, body, conn, stream, meta_interval, pos, parser>>

\* _pretty_print lines 130-140: get_next_metadata has returned; the filter
\* and the timestamp give the dict for the sink.
PollFilter ==
    /\ poll.on
    /\ pc = "idle"
    /\ op = "next"
    /\ LET f == FilterResult(result.map, poll.filter_fields) IN
         IF f.status # "ok"
         THEN /\ pc' = "raised"
              /\ err' = f.status
              /\ hist' = [hist EXCEPT !.raised = TRUE]
              /\ poll' = [poll EXCEPT !.returns = Bump(@)]
         ELSE /\ pc' = "sink"
              /\ \E now \in ClockStrings :
                    poll' = [poll EXCEPT
                               !.returns = Bump(@),
                               !.handed = IF poll.with_timestamp
                                          THEN DictSet(f.result, TimestampKey, now)
                                          ELSE f.result]
              /\ UNCHANGED <<err, hist>>
    /\ UNCHANGED <<headers, body, conn, stream, meta_interval, pos, op, meta_len,
                   once_result, result, cycle, parser>>

\* _pretty_print line 143: printer_func(result) is entered.
PollSink ==
    /\ poll.on
    /\ pc = "sink"
    /\ poll' = [poll EXCEPT !.sunk = Append(@, poll.handed)]
    /\ pc' = "printing"
    /\ UNCHANGED <<headers, body, conn, stream, meta_interval, pos, op, meta_len,
                   once_result, result, err, cycle, hist, parser>>

\* printer_func returns; line 128 loops and line 130 calls
\* get_next_metadata again.
PollSinkReturn ==
    /\ poll.on
    /\ pc = "printing"
    /\ pc' = "skip"
    /\ err' = "none"
    /\ meta_len' = 0
    /\ once_result' = NoneVal
    /\ result' = Unset
    /\ cycle' = NewCycle(pos)
    /\ hist' = [hist EXCEPT !.call_start = pos]
    /\ UNCHANGED <<headers, body, conn, stream, meta_interval, pos, op, poll, parser>>

\* Where the loop of _pretty_print can be when the signal arrives: in one of
\* the three reads, between two statements, or inside the sink.
InPollLoop == pc \in {"skip", "len", "block", "ret", "idle", "sink", "printing"}

\* A faulty variant of Interrupt: the handler swallows the signal inside the
\* loop, which goes on.
Interrupt_LoopGoesOn ==
    /\ poll.on
    /\ ~poll.interrupted
    /\ InPollLoop
    /\ op = "next"
    /\ poll' = [poll EXCEPT !.interrupted = TRUE, !.int_pos = pos,
                            !.int_sunk = Len(poll.sunk)]
    /\ UNCHANGED <<headers, body, conn, stream, meta_interval, pos, pc, op, meta_len,
                   once_result, result, err, cycle, hist, parser>>

\* _pretty_print lines 144-145: KeyboardInterrupt raised inside the try is
\* caught, the loop is left and _pretty_print returns to main.
Interrupt ==
    /\ poll.on
    /\ ~poll.interrupted
    /\ InPollLoop
    /\ op = "next"
    /\ poll' = [poll EXCEPT !.interrupted = TRUE, !.int_pos = pos,
                            !.int_sunk = Len(poll.sunk)]
    /\ pc' = "after_poll"
    /\ UNCHANGED <<headers, body, conn, stream, meta_interval, pos, op, meta_len,
                   once_result, result, err, cycle, hist, parser>>

\* main line 174: instance.close() after _pretty_print has returned.
MainClose ==
    /\ poll.on
    /\ pc = "after_poll"
    /\ op' = "close"
    /\ conn' = "closed"
    /\ stream' = "None"
    /\ meta_interval' = None
    /\ pc' = "exit"
    /\ hist' = [hist EXCEPT !.closes = Bump(@)]
    /\ UNCHANGED <<headers, body, pos, meta_len, once_result, result, err, cycle,
                   poll, parser>>

PollNext ==
    \/ Construct
    \/ PollStart
    \/ ReadAudio
    \/ ReadLength
    \/ ReadBlock
    \/ LoopNext
    \/ PollFilter
    \/ PollSink
    \/ PollSinkReturn
    \/ Interrupt
    \/ MainClose

PollSpec == PollInit /\ [][PollNext]_vars

RECURSIVE NonZeroFrames(_, _, _)
\* number of frames with a non-zero length byte that start at or after the
\* frame boundary p and end at or before q
NonZeroFrames(p, q, mi) ==
    IF p + mi + 1 > q THEN 0
    ELSE LET e == p + mi + 1 + BlockUnit * body[p + mi + 1]
         IN  IF e > q THEN 0
             ELSE (IF body[p + mi + 1] # 0 THEN 1 ELSE 0) + NonZeroFrames(e, q, mi)

\* C18: while the polling loop runs, the sink has been entered once for each
\* result get_next_metadata has returned (the result in hand at the sink call
\* counted), and on a stream of well-formed frames the number of sink calls at
\* the top of the loop is the number of non-zero-length blocks read so far.
C18_SinkOncePerResult ==
    (poll.on /\ ~poll.interrupted) =>
        /\ Len(poll.sunk) + (IF pc = "sink" THEN 1 ELSE 0) = poll.returns
        /\ (WellFormedStream /\ pc = "skip") =>
               Len(poll.sunk) = NonZeroFrames(0, pos, Interval)

\* C19: once the interrupt has arrived, the stream position and the number of
\* sink calls stay what they were, no error is recorded, and the stream is
\* closed at most once: not yet when _pretty_print has just returned, exactly
\* once when main has finished.
C19_InterruptEndsLoop ==
    poll.interrupted =>
        /\ pos = poll.int_pos
        /\ Len(poll.sunk) = poll.int_sunk
        /\ err = "none"
        /\ ~hist.raised
        /\ pc \in {"after_poll", "exit"}
        /\ (pc = "after_poll" => hist.closes = 0 /\ conn = "open" /\ ENABLED MainClose)
        /\ (pc = "exit" => hist.closes = 1 /\ conn = "closed" /\ stream = "None")

\* C19: the signal arrived in the block read of the cycle after the first
\* sink call, and main has closed the stream.
C19_Witness ==
    /\ poll.interrupted
    /\ pc = "exit"
    /\ hist.closes = 1
    /\ poll.int_sunk = 1
    /\ cycle.len_got = 1
    /\ cycle.block_want > 0
    /\ cycle.block_got = 0
    /\ pos < Len(body)

\* C19, second case: the signal arrived inside the sink call.
C19_WitnessInSink ==
    /\ poll.interrupted
    /\ pc = "exit"
    /\ poll.int_sunk = 1
    /\ poll.returns = 1
    /\ result.kind = "dict"

\* The entries of metadata whose key is in the list fields.
Selected(metadata, fields) ==
    LET Keep(e) == InList(e[1], fields) IN SelectSeq(metadata, Keep)

\* The timestamp entry that with_timestamp adds.
Stamps ==
    IF poll.with_timestamp
    THEN { << <<TimestampKey, now>> >> : now \in ClockStrings }
    ELSE { <<>> }

\* C20: for every result get_next_metadata returns, the sink is handed the
\* entries whose key is in filter_fields (all entries when filter_fields is
\* None or empty), followed by "_timestamp" when with_timestamp is set.
C20_FieldFilter ==
    (poll.on /\ op = "next") =>
        /\ (pc = "sink" =>
              \E stamp \in Stamps :
                 poll.handed =
                   (IF ~poll.filter_fields.given \/ Len(poll.filter_fields.fields) = 0
                    THEN result.map
                    ELSE Selected(result.map, poll.filter_fields.fields)) \o stamp)
        /\ (pc = "raised" => result.kind # "dict")

====
